---- MODULE Spec2Model ----
(***************************************************************************)
(* A model of adv_train_cifar.py: the adversarial-training driver main(),  *)
(* its checkpoint/resume files, its learning-rate schedules and the        *)
(* balanced assembly of adversarial example sets.                          *)
(*                                                                         *)
(* The classifier and the autograd engine are black boxes.  A model state  *)
(* (state_dict) is identified by what the evaluator measures on it: the    *)
(* number of correctly classified clean test samples (cc) and adversarial  *)
(* test samples (rc).  An optimizer step may produce any model state.      *)
(* Accuracies and learning rates are exact rationals <<num, den>>.         *)
(***************************************************************************)
EXTENDS Integers, Sequences, FiniteSets, TLC

\* ------------------------------------------------------------------ bounds
MaxEpochs == 2      \* --epochs ranges over 1..MaxEpochs
MaxTestN == 2       \* sizes of the clean and adversarial test sets
MaxTrainN == 3      \* sizes of the clean and adversarial training sets
MaxBatch == 2       \* --batch-size ranges over 1..MaxBatch
MaxChkpt == 2       \* --chkpt-iters ranges over 0..MaxChkpt
MaxE == 11          \* lr_schedule is called with epochs in 1..MaxE
TDen == 10          \* and t on the grid 0, 1/TDen, 2/TDen, ..., epochs
MaxAttacks == 3     \* --list names 1..MaxAttacks attacks
MaxRatio == 23      \* each ratio of --balanced ranges over 1..MaxRatio
MaxN == 2          \* examples of the clean training set
NumClasses == 2    \* class labels
MaxK == 2          \* attacks of --attack all and --attack combine

VARIABLES
    run,        \* number of launches of the script so far
    args,       \* the parsed command line of the current launch
    data,       \* dataset sizes: n_c, n_a (train), test_n, test_robust_n
    pc,         \* position of main()
    dirs,       \* output directories that exist
    files,      \* files of the output directory: name -> content
    model,      \* the classifier's parameters (NoModel before creation)
    opt,        \* the optimizer: per-group lr and its step count
    best_test_robust_acc,
    epoch, i, lr, train_n,
    test_acc, test_robust_acc,
    obs,        \* what this launch did: rows, steps, evals, written, ...
    prev,       \* the obs/args/model of the previous launch
    lrq,        \* a call of lr_schedule: policy, epochs, t and its result
    bal,        \* the balanced assembly loop of --attack combine
    ts          \* the training sets, their batches and one step's loss

vars == <<run, args, data, pc, dirs, files, model, opt, best_test_robust_acc,
          epoch, i, lr, train_n, test_acc, test_robust_acc, obs, prev,
          lrq, bal, ts>>
\* the variables of main()'s run, and the others
runVars == <<run, args, data, pc, dirs, files, model, opt,
             best_test_robust_acc, epoch, i, lr, train_n, test_acc,
             test_robust_acc, obs, prev>>
pure == <<lrq, bal, ts>>

\* ---------------------------------------------------------------- rationals
Rat(n, d) == <<n, d>>
Abs(x) == IF x < 0 THEN -x ELSE x
RECURSIVE GCD(_, _)
GCD(a, b) == IF b = 0 THEN a ELSE GCD(b, a % b)
\* lowest terms, positive denominator
Norm(a) ==
    LET g == GCD(Abs(a[1]), Abs(a[2]))
        sg == IF a[2] < 0 THEN -1 ELSE 1
    IN IF a[1] = 0 THEN <<0, 1>> ELSE <<sg * (a[1] \div g), sg * (a[2] \div g)>>
RatAdd(a, b) == Norm(<<a[1] * b[2] + b[1] * a[2], a[2] * b[2]>>)
RatSub(a, b) == Norm(<<a[1] * b[2] - b[1] * a[2], a[2] * b[2]>>)
RatMul(a, b) == Norm(<<a[1] * b[1], a[2] * b[2]>>)
RatDiv(a, b) == Norm(<<a[1] * b[2], a[2] * b[1]>>)
RatLe(a, b) == a[1] * b[2] <= b[1] * a[2]
RatGt(a, b) == a[1] * b[2] > b[1] * a[2]
RatEq(a, b) == a[1] * b[2] = b[1] * a[2]
RatLt(a, b) == RatGt(b, a)

Min(a, b) == IF a < b THEN a ELSE b
Max(a, b) == IF a > b THEN a ELSE b

\* ------------------------------------------------------------ Batches
\* len(DataLoader) with drop_last=False
NumBatches(n, B) == (n + B - 1) \div B
\* size of the k-th batch (k from 0) of a dataset of n samples
BatchSize(n, B, k) == IF (k + 1) * B <= n THEN B ELSE n - k * B

\* ------------------------------------------------------------ sentinels
NoModel == [rc |-> -1, cc |-> -1]
NoOpt == [lr |-> <<>>, steps |-> -1]
Unbound == Rat(-1, 1)          \* a local variable not yet assigned
NoArgs == [attack |-> "none", eval |-> FALSE, resume |-> 0, epochs |-> 0,
           chkpt_iters |-> 0, l2 |-> FALSE, batch_size |-> 0]
NoObs == [rows |-> 0, steps |-> 0, evals |-> 0, written |-> {}, done |-> 0,
          max_acc |-> 0, max_before |-> 0, error |-> "none", used |-> <<>>, sched |-> Unbound,
          init_acc |-> <<-1, -1>>, trace |-> <<>>, updates |-> 0,
          clean_saw |-> 0]
NoPrev == [pc |-> "none", args |-> NoArgs, model |-> NoModel, obs |-> NoObs,
           test_acc |-> -1, test_robust_acc |-> -1]

\* ------------------------------------------------------------ arguments
ATTACK_LIST == {"pgd"}
Attacks == ATTACK_LIST \cup {"bogus"}
ArgSpace == [attack : Attacks, eval : BOOLEAN, resume : 0..MaxEpochs,
             epochs : 1..MaxEpochs, chkpt_iters : 0..MaxChkpt, l2 : BOOLEAN,
             batch_size : 1..MaxBatch]
DataSpace == [n_c : 1..MaxTrainN, n_a : 1..MaxTrainN,
              test_n : 1..MaxTestN, test_robust_n : 1..MaxTestN]
Weights == [rc : 0..data.test_robust_n, cc : 0..data.test_n]
\* resnet18(pretrained=True): one fixed parameter vector
Pretrained == [rc |-> 0, cc |-> 0]

\* ------------------------------------------------------------ files
Put(f, name, content) ==
    [n \in DOMAIN f \cup {name} |-> IF n = name THEN content ELSE f[n]]
\* dirname = fname + "default/" + attack + "/": one directory per --attack
ModelFile(a, e) == <<a.attack, "model", e>>
OptFile(a, e) == <<a.attack, "opt", e>>
BestFile(a) == <<a.attack, "model_best", 0>>
LogFile(a) == <<a.attack, IF a.eval THEN "eval.log" ELSE "output.log", 0>>
Exists(name) == name \in DOMAIN files
\* the checkpoint files (not the logs) of the output directory
Checkpoints == {n \in DOMAIN files : n[2] \in {"model", "opt", "model_best"}}

NoQuery == [policy |-> "none", E |-> 0, t |-> 0, out |-> <<0, 0>>,
            called |-> FALSE]
NoBal == [ratios |-> <<>>, i |-> 0, sum_samples |-> 0, counts |-> <<>>,
          images |-> 0, labels |-> 0]
NoStep == [taken |-> FALSE, X |-> <<>>, y |-> <<>>, draw |-> <<>>,
           adv_input |-> <<>>, y_adv |-> <<>>, robust_loss |-> <<>>,
           loss |-> <<>>]
NoTs == [phase |-> "none", policy |-> "none", sample |-> 0, batch_size |-> 0,
         mixup |-> FALSE, labels |-> <<>>, train_set |-> <<>>,
         train_adv_set |-> <<>>, i |-> 0, step |-> NoStep]

\* nothing has been launched
Idle ==
    /\ run = 0
    /\ args = NoArgs
    /\ pc = "start"
    /\ dirs = {}
    /\ files = <<>>
    /\ model = NoModel
    /\ opt = NoOpt
    /\ best_test_robust_acc = Rat(0, 1)
    /\ epoch = 0 /\ i = 0 /\ lr = Unbound /\ train_n = 0
    /\ test_acc = 0 /\ test_robust_acc = 0
    /\ obs = NoObs
    /\ prev = NoPrev

Init ==
    /\ Idle
    /\ data \in DataSpace
    /\ lrq = NoQuery /\ bal = NoBal /\ ts = NoTs

Terminal == pc \in {"done", "error", "exit"}

\* main(), lines 113-359: parse the arguments, create the output directory
\* and the log file, load the data; an unknown --attack raises ValueError.
Setup(a) ==
    /\ run' = run + 1
    /\ args' = a
    /\ dirs' = dirs \cup {a.attack}
    /\ files' = IF Exists(LogFile(a)) THEN files ELSE Put(files, LogFile(a), 0)
    /\ model' = NoModel /\ opt' = NoOpt
    /\ best_test_robust_acc' = Rat(0, 1)
    /\ epoch' = 0 /\ i' = 0 /\ lr' = Unbound /\ train_n' = 0
    /\ test_acc' = 0 /\ test_robust_acc' = 0
    /\ IF a.attack \in ATTACK_LIST
       THEN /\ pc' = "build" /\ obs' = NoObs
       ELSE /\ pc' = "error" /\ obs' = [NoObs EXCEPT !.error = "ValueError"]
    /\ UNCHANGED <<data, pure>>

\* the script is started on an empty output directory
Launch(a) ==
    /\ pc = "start"
    /\ Setup(a)
    /\ UNCHANGED prev

\* the script is started again after an earlier launch has ended, on the
\* files that launch left behind
Relaunch(a) ==
    /\ Terminal /\ run = 1
    /\ Setup(a)
    /\ prev' = [pc |-> pc, args |-> args, model |-> model, obs |-> obs,
                test_acc |-> test_acc, test_robust_acc |-> test_robust_acc]

\* ------------------------------------------------------------ lr_schedule
\* Learning rates are in units of lr_max; t is a rational fractional epoch.
ZeroDivisionError == Rat(0, 0)       \* the call raises instead of returning

\* np.interp([x], xp, fp)[0]: fp[-1] right of xp[-1], fp[0] left of xp[0],
\* otherwise the segment j with xp[j] <= x < xp[j+1]
Interp(x, xp, fp) ==
    LET n == Len(xp)
    IN IF RatGt(x, xp[n]) THEN fp[n]
       ELSE IF RatLt(x, xp[1]) THEN fp[1]
       ELSE LET j == CHOOSE k \in 1..n :
                        /\ RatLe(xp[k], x)
                        /\ \A m \in 1..n : RatLe(xp[m], x) => m <= k
            IN IF j = n \/ RatEq(xp[j], x) THEN fp[j]
               ELSE RatAdd(fp[j],
                           RatMul(RatDiv(RatSub(fp[j + 1], fp[j]),
                                         RatSub(xp[j + 1], xp[j])),
                                  RatSub(x, xp[j])))

\* lines 404-405
superconverge(E, t) ==
    Interp(t, <<Rat(0, 1), Rat((E * 2) \div 5, 1), Rat(E, 1)>>,
              <<Rat(0, 1), Rat(1, 1), Rat(0, 1)>>)

\* lines 406-413
piecewise(E, t) ==
    IF 2 * t[1] < E * t[2] THEN Rat(1, 1)
    ELSE IF 4 * t[1] < 3 * E * t[2] THEN Rat(1, 10)
    ELSE Rat(1, 100)

\* lines 414-415
linear(E, t) ==
    Interp(t, <<Rat(0, 1), Rat(E \div 3, 1), Rat((E * 2) \div 3, 1), Rat(E, 1)>>,
              <<Rat(1, 1), Rat(1, 1), Rat(1, 10), Rat(1, 100)>>)

\* lines 422-424: t // (epochs // 10) divides by zero when epochs < 10
multipledecay(E, t) ==
    IF E \div 10 = 0 THEN ZeroDivisionError
    ELSE RatSub(Rat(1, 1), Rat(t[1] \div (t[2] * (E \div 10)), 10))

Policies == {"superconverge", "piecewise", "linear", "multipledecay"}

lr_schedule(policy, E, t) ==
    CASE policy = "superconverge" -> superconverge(E, t)
      [] policy = "piecewise" -> piecewise(E, t)
      [] policy = "linear" -> linear(E, t)
      [] policy = "multipledecay" -> multipledecay(E, t)

\* torch.optim.SGD(params, lr=args.lr_max, ...): with --l2 two parameter
\* groups (decay, no_decay), otherwise one
NewOpt(a) ==
    [lr |-> IF a.l2 THEN <<Rat(1, 1), Rat(1, 1)>> ELSE <<Rat(1, 1)>>,
     steps |-> 0]

\* the error, if any, of the loads of lines 434-438
ResumeError(a) ==
    IF ~Exists(ModelFile(a, a.resume - 1)) THEN "FileNotFoundError"
    ELSE IF ~Exists(OptFile(a, a.resume - 1)) THEN "FileNotFoundError"
    ELSE IF Len(files[OptFile(a, a.resume - 1)].lr) # Len(NewOpt(a).lr)
         THEN "ValueError"     \* a different number of parameter groups
    ELSE IF ~Exists(BestFile(a)) THEN "FileNotFoundError"
    ELSE "none"

\* main(), lines 370-448: create the model and the optimizer, resume, and
\* return at once for --eval without --resume.
Build ==
    /\ pc = "build"
    /\ IF args.resume # 0
       THEN IF ResumeError(args) # "none"
            THEN /\ pc' = "error"
                 /\ obs' = [obs EXCEPT !.error = ResumeError(args)]
                 /\ model' = IF Exists(ModelFile(args, args.resume - 1))
                             THEN files[ModelFile(args, args.resume - 1)]
                             ELSE Pretrained
                 /\ opt' = IF Exists(ModelFile(args, args.resume - 1))
                              /\ Exists(OptFile(args, args.resume - 1))
                              /\ ResumeError(args) # "ValueError"
                           THEN files[OptFile(args, args.resume - 1)]
                           ELSE NewOpt(args)
                 /\ UNCHANGED <<best_test_robust_acc, epoch>>
            ELSE /\ model' = files[ModelFile(args, args.resume - 1)]
                 /\ opt' = files[OptFile(args, args.resume - 1)]
                 /\ best_test_robust_acc' = files[BestFile(args)].test_robust_acc
                 /\ epoch' = args.resume
                 /\ pc' = "initial_eval"
                 /\ UNCHANGED obs
       ELSE /\ model' = Pretrained
            /\ opt' = NewOpt(args)
            /\ epoch' = 0
            /\ pc' = IF args.eval THEN "exit" ELSE "initial_eval"
            /\ UNCHANGED <<best_test_robust_acc, obs>>
    /\ UNCHANGED <<pure, run, args, data, dirs, files, i, lr, train_n, test_acc,
                   test_robust_acc, prev>>

\* main(), lines 450-480: the evaluation before the epoch loop
InitialEval ==
    /\ pc = "initial_eval"
    /\ test_acc' = model.cc
    /\ test_robust_acc' = model.rc
    /\ obs' = [obs EXCEPT !.evals = @ + 1, !.init_acc = <<model.cc, model.rc>>]
    /\ pc' = "epoch"
    /\ UNCHANGED <<pure, run, args, data, dirs, files, model, opt,
                   best_test_robust_acc, epoch, i, lr, train_n, prev>>

\* main(), lines 481-488: for epoch in range(start_epoch, epochs)
EpochHead ==
    /\ pc = "epoch"
    /\ IF epoch < args.epochs
       THEN /\ pc' = "train" /\ i' = 0 /\ train_n' = 0
       ELSE /\ pc' = "done" /\ UNCHANGED <<i, train_n>>
    /\ UNCHANGED <<pure, run, args, data, dirs, files, model, opt,
                   best_test_robust_acc, epoch, lr, test_acc, test_robust_acc,
                   obs, prev>>

\* zip(train_batches, train_robust_batches) still has a pair to give
HasPair ==
    i < Min(NumBatches(data.n_c, args.batch_size),
            NumBatches(data.n_a, args.batch_size))

\* opt.param_groups[0].update(lr=lr), line 497
SetLr(o, v) == [o EXCEPT !.lr[1] = v]

\* The statements of one training step, lines 499-523, on the step's view
\* of the parameters: w the weights, ver the number of updates they have
\* had, grad what the gradient buffers hold, trace the statements executed.
StepLocals == [w |-> model, ver |-> obs.updates, grad |-> "stale",
               trace |-> <<>>, robust_saw |-> -1, clean_saw |-> -1]
\* robust_output = model(adv_input), line 501
AdvForward(s) == [s EXCEPT !.trace = Append(@, "adv_forward"),
                           !.robust_saw = s.ver]
\* robust_loss = criterion(robust_output, y), lines 505-513
RobustLoss(s) == [s EXCEPT !.trace = Append(@, "adv_loss")]
\* opt.zero_grad(), line 515
ZeroGrad(s) == [s EXCEPT !.trace = Append(@, "zero_grad"), !.grad = "zero"]
\* robust_loss.backward(), line 516
Backward(s) == [s EXCEPT !.trace = Append(@, "backward"),
                         !.grad = "robust_loss"]
\* opt.step(), line 517: the parameters become w
OptStep(s, w) == [s EXCEPT !.trace = Append(@, "opt_step"),
                           !.w = w, !.ver = @ + 1]
\* output = model(normalize(X)), line 519
CleanForward(s) == [s EXCEPT !.trace = Append(@, "clean_forward"),
                             !.clean_saw = s.ver]
\* loss = criterion(output, y), lines 520-523: no backward() follows
CleanLoss(s) == [s EXCEPT !.trace = Append(@, "clean_loss")]
TrainBody_CleanFirst(s, w) ==
    OptStep(Backward(ZeroGrad(RobustLoss(AdvForward(
        CleanLoss(CleanForward(s)))))), w)
\* lines 499-523 in the order of the code
TrainBody(s, w) ==
    CleanLoss(CleanForward(
        OptStep(Backward(ZeroGrad(RobustLoss(AdvForward(s)))), w)))

\* main(), lines 489-529: one paired (clean, adversarial) training step.
\* criterion(robust_output, y) compares the adversarial batch's logits with
\* the clean batch's labels and raises ValueError when their sizes differ.
TrainStep ==
    /\ pc = "train" /\ HasPair /\ ~args.eval
    /\ LET t == Rat(epoch * NumBatches(data.n_c, args.batch_size) + i + 1,
                    NumBatches(data.n_c, args.batch_size))
           v == lr_schedule("piecewise", args.epochs, t)
           o == SetLr(opt, v)
           nc == BatchSize(data.n_c, args.batch_size, i)
           na == BatchSize(data.n_a, args.batch_size, i)
       IN /\ lr' = v
          /\ IF na # nc
             THEN /\ opt' = o
                  /\ pc' = "error"
                  /\ obs' = [obs EXCEPT !.error = "ValueError",
                                        !.trace = AdvForward(StepLocals).trace]
                  /\ UNCHANGED <<model, i, train_n>>
             ELSE /\ \E w \in Weights :
                       LET s == TrainBody(StepLocals, w)
                       IN /\ model' = s.w
                          /\ obs' = [obs EXCEPT !.steps = @ + 1,
                                                !.used = o.lr, !.sched = v,
                                                !.trace = s.trace,
                                                !.updates = s.ver,
                                                !.clean_saw = s.clean_saw]
                  /\ opt' = [o EXCEPT !.steps = @ + 1]
                  /\ i' = i + 1
                  /\ train_n' = train_n + nc
                  /\ pc' = "train"
    /\ UNCHANGED <<pure, run, args, data, dirs, files, best_test_robust_acc, epoch,
                   test_acc, test_robust_acc, prev>>

\* the inner loop ends: a sequence is exhausted, or --eval breaks out of it
TrainEnd ==
    /\ pc = "train" /\ (~HasPair \/ args.eval)
    /\ pc' = "test"
    /\ UNCHANGED <<pure, run, args, data, dirs, files, model, opt,
                   best_test_robust_acc, epoch, i, lr, train_n, test_acc,
                   test_robust_acc, obs, prev>>

\* main(), lines 536-568: evaluate on the clean and adversarial test sets
Evaluate ==
    /\ pc = "test"
    /\ test_acc' = model.cc
    /\ test_robust_acc' = model.rc
    /\ obs' = [obs EXCEPT !.evals = @ + 1]
    /\ pc' = "log"
    /\ UNCHANGED <<pure, run, args, data, dirs, files, model, opt,
                   best_test_robust_acc, epoch, i, lr, train_n, prev>>

\* main(), lines 571-574: the per-epoch row; lr is read though no training
\* step may have bound it, and the train metrics are divided by train_n
LogRow ==
    /\ pc = "log"
    /\ IF lr = Unbound
       THEN /\ pc' = "error" /\ obs' = [obs EXCEPT !.error = "NameError"]
       ELSE IF train_n = 0
       THEN /\ pc' = "error"
            /\ obs' = [obs EXCEPT !.error = "ZeroDivisionError"]
       ELSE /\ pc' = "checkpoint" /\ obs' = [obs EXCEPT !.rows = @ + 1]
    /\ UNCHANGED <<pure, run, args, data, dirs, files, model, opt,
                   best_test_robust_acc, epoch, i, lr, train_n, test_acc,
                   test_robust_acc, prev>>

\* the condition of line 577
ChkptDue_OffByOne(a, e) == e % a.chkpt_iters = 0 \/ e + 1 = a.epochs
ChkptDue(a, e) == (e + 1) % a.chkpt_iters = 0 \/ e + 1 = a.epochs

\* main(), lines 576-579: the periodic checkpoint
Checkpoint ==
    /\ pc = "checkpoint"
    /\ IF args.chkpt_iters = 0
       THEN /\ pc' = "error"
            /\ obs' = [obs EXCEPT !.error = "ZeroDivisionError"]
            /\ UNCHANGED files
       ELSE /\ pc' = "best"
            /\ IF ChkptDue(args, epoch)
               THEN /\ files' = Put(Put(files, ModelFile(args, epoch), model),
                                    OptFile(args, epoch), opt)
                    /\ obs' = [obs EXCEPT !.written =
                                 @ \cup {ModelFile(args, epoch),
                                         OptFile(args, epoch)}]
               ELSE UNCHANGED <<files, obs>>
    /\ UNCHANGED <<pure, run, args, data, dirs, model, opt, best_test_robust_acc,
                   epoch, i, lr, train_n, test_acc, test_robust_acc, prev>>

\* the dictionary saved to model_best.pth, lines 583-589; the losses are
\* opaque functions of the model state
Snapshot ==
    [state_dict |-> model,
     test_robust_acc |-> Rat(test_robust_acc, data.test_robust_n),
     test_robust_loss |-> <<"robust_loss", model>>,
     test_loss |-> <<"loss", model>>,
     test_acc |-> Rat(test_acc, data.test_n)]

\* the tracker's new value, line 590
NewBest == Rat(test_robust_acc, data.test_n)

\* main(), lines 581-590: save the best model, then on to the next epoch
SaveBest ==
    /\ pc = "best"
    /\ IF RatGt(Rat(test_robust_acc, data.test_robust_n), best_test_robust_acc)
       THEN /\ files' = Put(files, BestFile(args), Snapshot)
            /\ best_test_robust_acc' = NewBest
            /\ obs' = [obs EXCEPT !.written = @ \cup {BestFile(args)},
                                  !.done = @ + 1,
                                  !.max_before = obs.max_acc,
                                  !.max_acc = Max(@, test_robust_acc)]
       ELSE /\ obs' = [obs EXCEPT !.done = @ + 1,
                                  !.max_before = obs.max_acc,
                                  !.max_acc = Max(@, test_robust_acc)]
            /\ UNCHANGED <<files, best_test_robust_acc>>
    /\ epoch' = epoch + 1
    /\ pc' = "epoch"
    /\ UNCHANGED <<pure, run, args, data, dirs, model, opt, i, lr, train_n,
                   test_acc, test_robust_acc, prev>>

Step ==
    \/ Build
    \/ InitialEval
    \/ EpochHead
    \/ TrainStep
    \/ TrainEnd
    \/ Evaluate
    \/ LogRow
    \/ Checkpoint
    \/ SaveBest

\* One launch of the script, any arguments, any dataset sizes.
Next ==
    \/ \E a \in ArgSpace : Launch(a)
    \/ Step

Spec == Init /\ [][Next]_vars

\* Launches that follow one another on the same output directory: the
\* known attack, batch size 1 and datasets of one sample each.
ResumeArgSpace == {a \in ArgSpace : a.attack \in ATTACK_LIST /\ a.batch_size = 1}
ResumeData == [n_c |-> 1, n_a |-> 1, test_n |-> 1, test_robust_n |-> 1]

InitResume ==
    /\ Idle
    /\ data = ResumeData
    /\ lrq = NoQuery /\ bal = NoBal /\ ts = NoTs

NextResume ==
    \/ \E a \in ResumeArgSpace : Launch(a)
    \/ \E a \in ResumeArgSpace : Relaunch(a)
    \/ Step

SpecResume == InitResume /\ [][NextResume]_vars

\* ------------------------------------------------------------ floats
\* Python floats are IEEE 754 doubles.  A positive double is a 53-bit
\* significand, least significant bit first, and the exponent of that bit;
\* the operations round to nearest, ties to even.
Precision == 53
LimbBits == 13      \* long multiplication works on limbs of 13 bits
RECURSIVE Pow2(_)
Pow2(k) ==
    IF k = 0 THEN 1
    ELSE IF k % 2 = 0 THEN LET h == Pow2(k \div 2) IN h * h
    ELSE 2 * Pow2(k - 1)
Zeros(k) == [j \in 1..k |-> 0]
Increment(b) ==
    IF \A k \in 1..Len(b) : b[k] = 1
    THEN [k \in 1..(Len(b) + 1) |-> IF k = Len(b) + 1 THEN 1 ELSE 0]
    ELSE LET j == CHOOSE k \in 1..Len(b) :
                      b[k] = 0 /\ \A m \in 1..(k - 1) : b[m] = 1
         IN [k \in 1..Len(b) |-> IF k < j THEN 0 ELSE IF k = j THEN 1 ELSE b[k]]
RECURSIVE BitsToInt(_)
BitsToInt(b) == IF b = <<>> THEN 0 ELSE Head(b) + 2 * BitsToInt(Tail(b))
\* the limbs of b * c, least significant first; b is a sequence of limbs
RECURSIVE MulLimbs(_, _, _)
MulLimbs(limbs, c, carry) ==
    IF limbs = <<>>
    THEN IF carry = 0 THEN <<>>
         ELSE <<carry % Pow2(LimbBits)>>
              \o MulLimbs(<<>>, c, carry \div Pow2(LimbBits))
    ELSE LET v == Head(limbs) * c + carry
         IN <<v % Pow2(LimbBits)>> \o MulLimbs(Tail(limbs), c, v \div Pow2(LimbBits))
\* the number of bits of v > 0
RECURSIVE BitLength(_)
BitLength(v) == IF v = 0 THEN 0 ELSE 1 + BitLength(v \div 2)
\* the bits of b * c (least significant first, no leading zeros), 0 < c < 2^17
MulBits(b, c) ==
    LET n == (Len(b) + LimbBits - 1) \div LimbBits
        limbs == [j \in 1..n |->
                    BitsToInt(SubSeq(b, LimbBits * (j - 1) + 1,
                                     Min(LimbBits * j, Len(b))))]
        p == MulLimbs(limbs, c, 0)
        top == LimbBits * (Len(p) - 1) + BitLength(p[Len(p)])
    IN [k \in 1..top |->
          (p[(k - 1) \div LimbBits + 1] \div Pow2((k - 1) % LimbBits)) % 2]
\* zero bits after the binary point of x/S before its first one, 0 < x < S
RECURSIVE LeadingZeros(_, _)
LeadingZeros(x, S) == IF 2 * x >= S THEN 0 ELSE 1 + LeadingZeros(2 * x, S)
\* the next n limbs of the binary expansion of rem/S, most significant
\* first, and the remainder left
RECURSIVE ExpandLimbs(_, _, _)
ExpandLimbs(rem, S, n) ==
    IF n = 0 THEN [limbs |-> <<>>, rem |-> rem]
    ELSE LET rest == ExpandLimbs((rem * Pow2(LimbBits)) % S, S, n - 1)
         IN [limbs |-> <<(rem * Pow2(LimbBits)) \div S>> \o rest.limbs,
             rem |-> rest.rem]
\* bit q (from 1, most significant first) of a sequence of limbs
LimbBit(limbs, q) ==
    (limbs[(q - 1) \div LimbBits + 1]
        \div Pow2(LimbBits - 1 - ((q - 1) % LimbBits))) % 2

FloatZero == [m |-> <<>>, e |-> 0]
\* a significand rounded up: a carry out of the top bit renormalises
RoundUp(m, e) ==
    LET up == Increment(m)
    IN IF Len(up) > Precision THEN [m |-> Tail(up), e |-> e + 1]
       ELSE [m |-> up, e |-> e]
\* the double nearest to bits * 2^e (bits least significant first, top bit 1)
RoundToDouble(bits, e) ==
    LET L == Len(bits)
        d == L - Precision
    IN IF d <= 0 THEN [m |-> Zeros(-d) \o bits, e |-> e + d]
       ELSE LET kept == SubSeq(bits, d + 1, L)
                half == bits[d] = 1
                sticky == \E k \in 1..(d - 1) : bits[k] = 1
            IN IF half /\ (sticky \/ kept[1] = 1) THEN RoundUp(kept, e + d)
               ELSE [m |-> kept, e |-> e + d]
\* float(x) / float(S) for integers 0 <= x <= S, S > 0: the first 53
\* bits of the quotient from its leading one, rounded on the bits after
FloatDiv(x, S) ==
    IF x = 0 THEN FloatZero
    ELSE IF x = S THEN [m |-> Zeros(Precision - 1) \o <<1>>, e |-> 1 - Precision]
    ELSE LET z == LeadingZeros(x, S)
             n == Precision \div LimbBits + 1
             ex == ExpandLimbs(x * Pow2(z), S, n)
             m == [j \in 1..Precision |-> LimbBit(ex.limbs, Precision + 1 - j)]
             half == LimbBit(ex.limbs, Precision + 1) = 1
             sticky == ex.rem # 0
                       \/ \E q \in (Precision + 2)..(n * LimbBits) :
                              LimbBit(ex.limbs, q) = 1
             e == -(z + Precision)
         IN IF half /\ (sticky \/ m[1] = 1)
            THEN RoundUp(m, e)
            ELSE [m |-> m, e |-> e]
\* f * c for a double f and an integer 0 < c < 2^17
FloatMulInt(f, c) ==
    IF f = FloatZero THEN FloatZero ELSE RoundToDouble(MulBits(f.m, c), f.e)
\* int(f): truncation, for a double 0 <= f < 2^31
FloatToInt(f) ==
    IF f = FloatZero \/ -f.e >= Len(f.m) THEN 0
    ELSE IF f.e >= 0 THEN BitsToInt(f.m) * Pow2(f.e)
    ELSE BitsToInt(SubSeq(f.m, 1 - f.e, Len(f.m)))

\* ------------------------------------------------------------ balanced
total == 50000
RECURSIVE SeqSum(_)
SeqSum(q) == IF q = <<>> THEN 0 ELSE Head(q) + SeqSum(Tail(q))
\* proportion[i] = float(x) / float(sum_proportion), line 298
Proportion(ratios, k) == FloatDiv(ratios[k], SeqSum(ratios))
\* n_samples of attack k (from 1), lines 312-316
NSamples(b, k) ==
    IF k # Len(b.ratios)
    THEN FloatToInt(FloatMulInt(Proportion(b.ratios, k), total))
    ELSE total - b.sum_samples

RatioSpace ==
    UNION {[1..k -> 1..MaxRatio] : k \in 1..MaxAttacks}

InitBalanced ==
    /\ Idle
    /\ data = ResumeData
    /\ lrq = NoQuery /\ ts = NoTs
    /\ bal \in [ratios : RatioSpace, i : {0}, sum_samples : {0},
                counts : {<<>>}, images : {0}, labels : {0}]

\* main(), lines 301-329: one iteration of the loop over the attacks
BalancedStep ==
    /\ bal.i < Len(bal.ratios)
    /\ LET k == bal.i + 1
           n_samples == NSamples(bal, k)
       IN bal' = [bal EXCEPT !.i = k,
                             !.sum_samples = IF k # Len(bal.ratios)
                                             THEN @ + n_samples ELSE @,
                             !.counts = Append(@, n_samples),
                             !.images = @ + n_samples,
                             !.labels = @ + n_samples]
    /\ UNCHANGED <<runVars, lrq, ts>>

NextBalanced == BalancedStep

SpecBalanced == InitBalanced /\ [][NextBalanced]_vars

\* Calls of lr_schedule: every policy, every epochs and t of the grid.
QuerySpace ==
    {q \in [policy : Policies, E : 1..MaxE, t : 0..(MaxE * TDen),
            out : {<<0, 0>>}, called : {FALSE}] : q.t <= q.E * TDen}

InitLR ==
    /\ Idle
    /\ data = ResumeData
    /\ lrq \in QuerySpace /\ bal = NoBal /\ ts = NoTs

CallLrSchedule ==
    /\ lrq.policy \in Policies /\ ~lrq.called
    /\ lrq' = [lrq EXCEPT !.out = lr_schedule(lrq.policy, lrq.E, Rat(lrq.t, TDen)),
                          !.called = TRUE]
    /\ UNCHANGED <<runVars, bal, ts>>

NextLR == CallLrSchedule

SpecLR == InitLR /\ [][NextLR]_vars

\* ================================================================ claims
\* ------------------------------------------------------------ training data
\* An example is the image's origin (src 0: the CIFAR training set, src a:
\* the a-th attack's file; id: the index of the original image) with the
\* label stored next to it.  An attack's file holds one adversarial image
\* per training image, in the order of the training set, with its label.
Perms(n) == {q \in [1..n -> 1..n] : \A a, b \in 1..n : q[a] = q[b] => a = b}
\* np.tile(train_data, k) zipped with np.tile(train_labels, k), lines 150-187
TrainSet(labels, k) ==
    [j \in 1..(k * Len(labels)) |->
        [src |-> 0, id |-> ((j - 1) % Len(labels)) + 1,
         label |-> labels[((j - 1) % Len(labels)) + 1]]]
\* torch.load(train_path) of the a-th attack, lines 230-232
AdvFile(labels, a) ==
    [j \in 1..Len(labels) |-> [src |-> a, id |-> j, label |-> labels[j]]]
\* np.concatenate over the attacks, lines 247-293
Concatenated(labels, k) ==
    [j \in 1..(k * Len(labels)) |->
        AdvFile(labels, ((j - 1) \div Len(labels)) + 1)[((j - 1) % Len(labels)) + 1]]
\* resample() of each attack's file, concatenated, lines 301-329: draws with
\* replacement, the same for the images and their labels; total is scaled
\* to the size of the training set
Resampled(labels, k) ==
    {[j \in 1..Len(labels) |-> AdvFile(labels, d[j][1])[d[j][2]]] :
        d \in {e \in [1..Len(labels) -> (1..k) \X (1..Len(labels))] :
                 \A a, b \in 1..Len(labels) : a <= b => e[a][1] <= e[b][1]}}
\* the number of attacks a policy reads
NumAttacks(policy) == IF policy = "single" THEN 1 ELSE MaxK
\* np.random.shuffle(s); s[:int(n * sample / 100)], lines 197-202, 341-346
Shuffled(s, sample) ==
    {[j \in 1..((Len(s) * sample) \div 100) |-> s[q[j]]] : q \in Perms(Len(s))}
\* the i-th batch (from 0) of a DataLoader without shuffling
Batch(s, B, k) == SubSeq(s, k * B + 1, Min((k + 1) * B, Len(s)))
Targets(b) == [j \in 1..Len(b) |-> b[j].label]
\* a row of a forwarded input: lam * a + (1 - lam) * b
Mix(lam, a, b) ==
    IF RatEq(lam, Rat(1, 1)) THEN [lam |-> Rat(1, 1), a |-> a, b |-> a]
    ELSE [lam |-> lam, a |-> a, b |-> b]
Input(b) == [j \in 1..Len(b) |-> Mix(Rat(1, 1), <<b[j].src, b[j].id>>,
                                               <<b[j].src, b[j].id>>)]
Lams == {Rat(1, 2), Rat(1, 1)}
MixupDraws(n) == [lam : Lams, index : Perms(n)]
\* mixup_data(x, y, alpha), lines 54-66, for the draw d of lam and index
mixup_data(x, y, d) ==
    [mixed_x |-> [j \in 1..Len(x) |-> Mix(d.lam, x[j].a, x[d.index[j]].a)],
     y_a |-> y,
     y_b |-> [j \in 1..Len(y) |-> y[d.index[j]]],
     lam |-> d.lam]
\* criterion(pred, y): the loss of the predictions for the rows of an input
\* against the labels y
criterion(pred, y) == [pred |-> pred, y |-> y]
\* mixup_criterion(criterion, pred, y_a, y_b, lam), lines 69-70
mixup_criterion(pred, y_a, y_b, lam) ==
    <<[c |-> lam, of |-> criterion(pred, y_a)],
      [c |-> RatSub(Rat(1, 1), lam), of |-> criterion(pred, y_b)]>>

Policies4 == {"single", "all", "combine", "balanced"}
InitData ==
    /\ Idle
    /\ data = ResumeData
    /\ lrq = NoQuery /\ bal = NoBal
    /\ \E n \in 1..MaxN, policy \in Policies4 :
         \E labels \in [1..n -> 0..(NumClasses - 1)] :
            ts \in [phase : {"load"}, policy : {policy}, sample : {50, 100},
                    batch_size : 1..MaxBatch, mixup : BOOLEAN,
                    labels : {labels},
                    train_set : {TrainSet(labels, NumAttacks(policy))},
                    train_adv_set : {<<>>}, i : {0}, step : {NoStep}]

\* main(), lines 197-202: the clean training set is shuffled and truncated
SampleTrain ==
    /\ ts.phase = "load"
    /\ IF ts.sample # 100
       THEN \E t \in Shuffled(ts.train_set, ts.sample) :
               ts' = [ts EXCEPT !.phase = "clean", !.train_set = t]
       ELSE ts' = [ts EXCEPT !.phase = "clean"]
    /\ UNCHANGED <<runVars, lrq, bal>>

\* main(), lines 229-333: the adversarial training set of the policy
AssembleAdv ==
    /\ ts.phase = "clean"
    /\ \E t \in IF ts.policy = "balanced"
                THEN Resampled(ts.labels, NumAttacks(ts.policy))
                ELSE {Concatenated(ts.labels, NumAttacks(ts.policy))} :
          ts' = [ts EXCEPT !.phase = "adv", !.train_adv_set = t]
    /\ UNCHANGED <<runVars, lrq, bal>>

\* main(), lines 338-346: the adversarial set is shuffled and truncated
SampleAdv ==
    /\ ts.phase = "adv"
    /\ IF ts.sample # 100
       THEN \E t \in Shuffled(ts.train_adv_set, ts.sample) :
               ts' = [ts EXCEPT !.phase = "train", !.train_adv_set = t]
       ELSE ts' = [ts EXCEPT !.phase = "train"]
    /\ UNCHANGED <<runVars, lrq, bal>>

PairsLeft ==
    ts.i < Min(NumBatches(Len(ts.train_set), ts.batch_size),
               NumBatches(Len(ts.train_adv_set), ts.batch_size))

\* main(), lines 489-529: the inputs and the labels of one training step
DataStep ==
    /\ ts.phase = "train" /\ PairsLeft
    /\ LET batch == Batch(ts.train_set, ts.batch_size, ts.i)
           adv_batch == Batch(ts.train_adv_set, ts.batch_size, ts.i)
           y == Targets(batch)
           adv_input == Input(adv_batch)
           y_adv == Targets(adv_batch)
       IN \E d \in IF ts.mixup THEN MixupDraws(Len(batch)) ELSE {<<>>} :
            LET m == IF ts.mixup THEN mixup_data(Input(batch), y, d)
                     ELSE [mixed_x |-> Input(batch), y_a |-> y, y_b |-> y,
                           lam |-> Rat(1, 1)]
                X == m.mixed_x
                robust_output == adv_input
                robust_loss ==
                    IF ts.mixup
                    THEN mixup_criterion(robust_output, m.y_a, m.y_b, m.lam)
                    ELSE <<[c |-> Rat(1, 1), of |-> criterion(robust_output, y)]>>
                output == X
                loss ==
                    IF ts.mixup
                    THEN mixup_criterion(output, m.y_a, m.y_b, m.lam)
                    ELSE <<[c |-> Rat(1, 1), of |-> criterion(output, y)]>>
                st == [taken |-> TRUE, X |-> Input(batch), y |-> y, draw |-> d,
                       adv_input |-> adv_input, y_adv |-> y_adv,
                       robust_loss |-> robust_loss, loss |-> loss]
            IN IF Len(adv_batch) # Len(batch)
               THEN ts' = [ts EXCEPT !.phase = "error",
                                     !.step = [st EXCEPT !.loss = <<>>]]
               ELSE ts' = [ts EXCEPT !.i = @ + 1, !.step = st]
    /\ UNCHANGED <<runVars, lrq, bal>>

\* the shorter of the two batch sequences is exhausted
DataEnd ==
    /\ ts.phase = "train" /\ ~PairsLeft
    /\ ts' = [ts EXCEPT !.phase = "end"]
    /\ UNCHANGED <<runVars, lrq, bal>>

NextData ==
    \/ SampleTrain
    \/ AssembleAdv
    \/ SampleAdv
    \/ DataStep
    \/ DataEnd

SpecData == InitData /\ [][NextData]_vars

InLoop == pc \in {"epoch", "train", "test", "log", "checkpoint", "best", "done"}
FreshTraining == run >= 1 /\ args.attack \in ATTACK_LIST /\ ~args.eval
                 /\ args.resume = 0
BestContent == IF Exists(BestFile(args)) THEN files[BestFile(args)]
               ELSE [state_dict |-> NoModel]
Ceil(n, B) == CHOOSE k \in 0..n : k * B >= n /\ (k - 1) * B < n

\* C1: in a run started without --resume, after every completed epoch the
\* best tracker equals the maximum test-robust-accuracy (robust correct
\* count / adversarial test sample count) over the completed epochs, and an
\* epoch whose accuracy exceeds the maximum of all earlier epochs leaves its
\* model state and its four test metrics in the best snapshot.
C1_BestTracksMax ==
    (FreshTraining /\ pc = "epoch") =>
        /\ RatEq(best_test_robust_acc, Rat(obs.max_acc, data.test_robust_n))
        /\ (obs.done >= 1 /\ test_robust_acc > obs.max_before) =>
               /\ Exists(BestFile(args))
               /\ files[BestFile(args)] = Snapshot

\* C2: an epoch whose test-robust-accuracy does not strictly exceed the
\* highest test-robust-accuracy of the earlier epochs of the run leaves
\* the best snapshot unchanged.
C2_NonImprovingKeepsBest ==
    [][(pc \in {"log", "checkpoint", "best"} /\ ~(test_robust_acc > obs.max_acc))
           => BestContent' = BestContent]_vars

\* a second launch that resumes at the end of a finished first launch
RoundTrip ==
    /\ run = 2 /\ prev.pc = "done"
    /\ args.resume = prev.args.epochs /\ args.epochs = prev.args.epochs
    /\ args.l2 = prev.args.l2
    /\ pc # "build"

\* C3: after a run with epochs = N has finished, a second run with
\* --resume N and epochs = N loads successfully, runs no epoch and no
\* optimizer step, writes no checkpoint file and evaluates the model state
\* the first run ended with, so that its accuracies are those of the first
\* run's last epoch.
C3_ResumeRoundTrip ==
    RoundTrip =>
        /\ pc # "error"
        /\ obs.rows = 0 /\ obs.steps = 0 /\ obs.done = 0
        /\ obs.written = {}
        /\ model = prev.model
        /\ pc = "done" => obs.init_acc = <<prev.test_acc, prev.test_robust_acc>>

\* C4: for every epoch e the loop has executed, model_<e>.pth and
\* opt_<e>.pth are both written at the end of epoch e if and only if e+1 is
\* a multiple of chkpt_iters or e+1 is the total number of epochs; a run
\* that reaches DONE after at least one epoch has written the model and the
\* optimizer state of its final epoch.
C4_PeriodicCheckpoint ==
    InLoop =>
        /\ \A e \in 0..(MaxEpochs - 1) :
             IF args.resume <= e /\ (e < epoch \/ (e = epoch /\ pc = "best"))
             THEN LET due == (e + 1) % args.chkpt_iters = 0
                             \/ e + 1 = args.epochs
                  IN /\ ModelFile(args, e) \in obs.written <=> due
                     /\ OptFile(args, e) \in obs.written <=> due
             ELSE /\ ModelFile(args, e) \notin obs.written
                  /\ OptFile(args, e) \notin obs.written
        /\ (pc = "done" /\ obs.done >= 1) =>
             /\ ModelFile(args, args.epochs - 1) \in obs.written
             /\ files[ModelFile(args, args.epochs - 1)] = model
             /\ files[OptFile(args, args.epochs - 1)] = opt
C4_Witness ==
    /\ pc = "done" /\ obs.done = 2
    /\ ModelFile(args, 1) \in obs.written
    /\ ModelFile(args, 0) \notin obs.written

\* C5: in a run with --eval and --resume S, S < epochs, every epoch takes
\* no optimizer step, leaves the model and the optimizer as loaded,
\* completes its test evaluation and logs its row, and the run reaches
\* DONE without an error.
C5_EvalMode ==
    (args.eval /\ args.resume # 0 /\ args.resume < args.epochs
        /\ obs.evals >= 1) =>
        /\ pc # "error"
        /\ obs.steps = 0
        /\ model = files[ModelFile(args, args.resume - 1)]
        /\ opt = files[OptFile(args, args.resume - 1)]
        /\ pc = "epoch" => obs.rows = epoch - args.resume
        /\ pc = "epoch" => obs.evals = 1 + epoch - args.resume

\* C6: (1) an unknown --attack raises a fatal error before the model, the
\* optimizer or any checkpoint file is created, and with no partial state
\* created; (2) --eval without --resume returns normally, with no test
\* evaluation, training step, optimizer step or checkpoint write.
C6_ConfigErrors ==
    /\ (run >= 1 /\ args.attack \notin ATTACK_LIST) =>
         /\ pc = "error" /\ obs.error = "ValueError"
         /\ model = NoModel /\ opt = NoOpt
         /\ Checkpoints = {}
         /\ dirs = {} /\ DOMAIN files = {}
    /\ (run >= 1 /\ args.attack \in ATTACK_LIST /\ args.eval
          /\ args.resume = 0 /\ pc # "build") =>
         /\ pc = "exit" /\ obs.error = "none"
         /\ obs.evals = 0 /\ obs.steps = 0 /\ obs.rows = 0
         /\ obs.written = {} /\ Checkpoints = {}

\* C7: a training epoch executes exactly min(ceil(n_c/B), ceil(n_a/B))
\* training steps, one optimizer step each, the traversal stops at the
\* shorter sequence without an error, and the epoch logs exactly one row.
C7_EpochLength ==
    (FreshTraining /\ args.chkpt_iters # 0) =>
        LET m == Min(Ceil(data.n_c, args.batch_size),
                     Ceil(data.n_a, args.batch_size))
        IN /\ pc # "error"
           /\ pc \in {"test", "log", "checkpoint", "best"} =>
                  i = m /\ obs.steps = (obs.done + 1) * m
           /\ pc \in {"epoch", "done"} =>
                  obs.steps = obs.done * m /\ obs.rows = obs.done
           /\ pc = "done" => obs.done = args.epochs

\* C10: at every training step the optimizer step uses the scheduled
\* learning rate lr_schedule(e + (i+1)/batches_per_epoch) for every
\* parameter group, with one group (no --l2) and with two (--l2).
C10_ScheduledLrUsed ==
    obs.steps >= 1 =>
        /\ Len(obs.used) = IF args.l2 THEN 2 ELSE 1
        /\ \A g \in DOMAIN obs.used : RatEq(obs.used[g], obs.sched)

\* the schedules as the specification's table gives them, in units of max
TableSuperconverge(E, t) ==
    Interp(t, <<Rat(0, 1), Rat(2 * E, 5), Rat(E, 1)>>,
              <<Rat(0, 1), Rat(1, 1), Rat(0, 1)>>)
TableLinear(E, t) ==
    Interp(t, <<Rat(0, 1), Rat(E, 3), Rat(2 * E, 3), Rat(E, 1)>>,
              <<Rat(1, 1), Rat(1, 1), Rat(1, 10), Rat(1, 100)>>)
\* max - floor(t/(E/10)) * (max/10)
TableMultipledecay(E, t) ==
    RatSub(Rat(1, 1), Rat((10 * t[1]) \div (t[2] * E), 10))
TablePiecewise(E, t) ==
    IF RatLt(RatDiv(t, Rat(E, 1)), Rat(1, 2)) THEN Rat(1, 1)
    ELSE IF RatLt(RatDiv(t, Rat(E, 1)), Rat(3, 4)) THEN Rat(1, 10)
    ELSE Rat(1, 100)
Table(policy, E, t) ==
    CASE policy = "superconverge" -> TableSuperconverge(E, t)
      [] policy = "piecewise" -> TablePiecewise(E, t)
      [] policy = "linear" -> TableLinear(E, t)
      [] policy = "multipledecay" -> TableMultipledecay(E, t)

\* C9: for every epochs E >= 1 and every t in [0, E] the selected schedule
\* returns the value of the specification's formula for that policy.
C9_ScheduleConformance ==
    lrq.called =>
        /\ lrq.out # ZeroDivisionError
        /\ RatEq(lrq.out, Table(lrq.policy, lrq.E, Rat(lrq.t, TDen)))

\* C11: every completed training step executes adversarial forward,
\* adversarial loss, zero_grad, backward, one optimizer step, clean forward
\* and clean loss in this order; the clean forward sees the parameters the
\* step has just updated; the parameters change once per training step, and
\* not at all while the epoch is evaluated, logged and checkpointed nor when
\* a step raises.
C11_StepOrdering ==
    [][/\ (pc = "train" /\ pc' = "train") =>
             /\ obs'.trace = <<"adv_forward", "adv_loss", "zero_grad",
                               "backward", "opt_step", "clean_forward",
                               "clean_loss">>
             /\ obs'.updates = obs.updates + 1
             /\ obs'.clean_saw = obs'.updates
       /\ obs'.updates = obs'.steps
       /\ (pc \in {"test", "log", "checkpoint", "best"}
             \/ (pc = "train" /\ pc' # "train")) =>
             /\ model' = model
             /\ obs'.updates = obs.updates]_vars
C11_Witness ==
    /\ pc = "done" /\ obs.updates >= 2 /\ obs.clean_saw = obs.updates
    /\ obs.evals >= 2 /\ obs.written # {}

\* C8: each of the first k-1 attacks contributes floor(ratio_i / sum(ratios)
\* * total) examples, the last one total minus the earlier counts, every
\* count is non-negative and the counts sum to total, the leading dimension
\* of the assembled image and label arrays.
C8_BalancedCounts ==
    (bal.ratios # <<>> /\ bal.i = Len(bal.ratios)) =>
        LET k == Len(bal.ratios)
            S == SeqSum(bal.ratios)
        IN /\ \A j \in 1..(k - 1) :
                  bal.counts[j] = (bal.ratios[j] * total) \div S
           /\ bal.counts[k] = total - SeqSum(SubSeq(bal.counts, 1, k - 1))
           /\ \A j \in 1..k : bal.counts[j] >= 0
           /\ SeqSum(bal.counts) = total
           /\ bal.images = total /\ bal.labels = total

\* C12: with --mixup, the loss that drives the optimizer step of a training
\* step is lam * L(pred, y) + (1 - lam) * L(pred, y[index]) where pred is
\* the output for the blended batch lam * X + (1 - lam) * X[index] of the
\* same draw of lam and index that produced y and y[index].
C12_MixupLossPairing ==
    (ts.step.taken /\ ts.mixup /\ ts.phase # "error") =>
        LET m == mixup_data(ts.step.X, ts.step.y, ts.step.draw)
        IN ts.step.robust_loss =
               mixup_criterion(m.mixed_x, m.y_a, m.y_b, m.lam)

\* C13: at every training step the labels the adversarial loss is computed
\* against are, position by position, the labels stored with the
\* adversarial examples of the batch that was forwarded, and there are as
\* many labels as examples in that batch.
C13_AdvLabelConsistency ==
    ts.step.taken =>
        \A k \in DOMAIN ts.step.robust_loss :
            /\ ts.step.robust_loss[k].of.pred = ts.step.adv_input
            /\ Len(ts.step.robust_loss[k].of.y) = Len(ts.step.adv_input)
            /\ ts.step.robust_loss[1].of.y = ts.step.y_adv
====
